---- MODULE Spec2Model ----
(***************************************************************************)
(* MPEG-1/2 program stream muxer and demuxer of libav/mpeg.c.              *)
(*                                                                         *)
(* The byte sink/source ctx->pb is a sequence of bytes (0..255).  The      *)
(* muxer appends to it, the demuxer reads it from position rpos.  A 64-bit *)
(* timestamp is kept as an integer while it is small; the 33-bit value a   *)
(* PES header carries is kept as the pair <<top 3 bits, low 30 bits>>.     *)
(***************************************************************************)
EXTENDS Integers, Sequences, FiniteSets, TLC

VARIABLES
    pc,        \* which call the driver may make next
    ctx,       \* AVFormatContext of the muxer: oformat, streams, priv_data, pb
    calls,     \* history of the mpeg_mux_write_packet calls made so far
    rd,        \* AVFormatContext of the demuxer: read position, streams, result
    tk,        \* a stand-alone Ticker with the sums of what it was asked and gave
    pr         \* probe data and the score mpegps_probe returned

vars == <<pc, ctx, calls, rd, tk, pr>>

(***************************************************************************)
(* Program constants                                                       *)
(***************************************************************************)
MAX_PAYLOAD_SIZE == 4096
PACK_START_CODE == \h1BA
SYSTEM_HEADER_START_CODE == \h1BB
ISO_11172_END_CODE == \h1B9
PROGRAM_STREAM_MAP == \h1BC
PRIVATE_STREAM_1 == \h1BD
PADDING_STREAM == \h1BE
PRIVATE_STREAM_2 == \h1BF
AUDIO_ID == \hC0
VIDEO_ID == \hE0
AC3_ID == \h80
MAX_SYNC_SIZE == 100000
VCD_PACKET_SIZE == 2324
DEFAULT_PACKET_SIZE == 2048
AUDIO_MAX_BUFFER_SIZE == 4096
VIDEO_MAX_BUFFER_SIZE == 47104
BITRATE_HEADROOM == 2000
PTS_UNSET == -1
EIO == 5
FRAME_RATE_BASE == 10000
AVPROBE_SCORE_MAX == 100

(***************************************************************************)
(* Bounds of the model                                                     *)
(***************************************************************************)
MaxWrites == 2
SmallWrite == 4
BigWrite == 4100
ForcePts == {0, 1000}
BitRates == {8000, 16000}
Profiles == {"mpeg", "vcd", "vob"}

(***************************************************************************)
(* Integer helpers                                                         *)
(***************************************************************************)
Min(a, b) == IF a < b THEN a ELSE b

Max(a, b) == IF a > b THEN a ELSE b

Pow2(n) == 2 ^ n

\* x >> n for a two's complement integer (arithmetic shift); the values of the
\* model stay within 32 bits, so a shift by 31 or more leaves only the sign
Shr(x, n) == IF n >= 31 THEN (IF x < 0 THEN -1 ELSE 0) ELSE x \div Pow2(n)

\* x & (2^n - 1)
LowBits(x, n) == x % Pow2(n)

Range(f) == {f[i] : i \in DOMAIN f}

RECURSIVE Concat(_)
Concat(ss) == IF ss = <<>> THEN <<>> ELSE Head(ss) \o Concat(Tail(ss))

(***************************************************************************)
(* Byte sink helpers: put_byte, put_be16, put_be32                         *)
(***************************************************************************)
put_be16(v) == << Shr(v, 8) % 256, v % 256 >>

put_be32(v) == << Shr(v, 24) % 256, Shr(v, 16) % 256, Shr(v, 8) % 256, v % 256 >>

(***************************************************************************)
(* Bit writer: put_bits writes the low n bits of a value, MSB first;       *)
(* flush_put_bits pads the last byte with zero bits.                       *)
(***************************************************************************)
put_bits(n, v) == [i \in 1..n |-> Shr(v, n - i) % 2]

ByteOfBits(bits, k) ==
    LET bit(j) == IF 8 * (k - 1) + j <= Len(bits) THEN bits[8 * (k - 1) + j] ELSE 0
    IN  128 * bit(1) + 64 * bit(2) + 32 * bit(3) + 16 * bit(4)
        + 8 * bit(5) + 4 * bit(6) + 2 * bit(7) + bit(8)

flush_put_bits(bits) == [k \in 1..((Len(bits) + 7) \div 8) |-> ByteOfBits(bits, k)]

(***************************************************************************)
(* Ticker (tick.h): adds num/den per tick, keeping the remainder           *)
(***************************************************************************)
ticker_init(inrate, outrate) == [num |-> outrate, den |-> inrate, err |-> 0]

ticker_value(t, n) == (n * t.num + t.err) \div t.den

ticker_tick(t, n) == [t EXCEPT !.err = (n * t.num + t.err) % t.den]

(***************************************************************************)
(* put_pack_header: the bytes of the pack header                           *)
(***************************************************************************)
\* a pack header whose mux_rate field is 24 bits wide
put_pack_header_wide(s, timestamp) ==
    flush_put_bits(Concat(<<
        put_bits(32, PACK_START_CODE),
        put_bits(4, 2),
        put_bits(3, LowBits(Shr(timestamp, 30), 3)),
        put_bits(1, 1),
        put_bits(15, LowBits(Shr(timestamp, 15), 15)),
        put_bits(1, 1),
        put_bits(15, LowBits(timestamp, 15)),
        put_bits(1, 1),
        put_bits(1, 1),
        put_bits(24, s.mux_rate),
        put_bits(1, 1) >>))

put_pack_header(s, timestamp) ==
    flush_put_bits(Concat(<<
        put_bits(32, PACK_START_CODE),
        put_bits(4, 2),
        put_bits(3, LowBits(Shr(timestamp, 30), 3)),
        put_bits(1, 1),
        put_bits(15, LowBits(Shr(timestamp, 15), 15)),
        put_bits(1, 1),
        put_bits(15, LowBits(timestamp, 15)),
        put_bits(1, 1),
        put_bits(1, 1),
        put_bits(22, s.mux_rate),
        put_bits(1, 1) >>))

(***************************************************************************)
(* put_system_header: the bytes of the system header, length patched       *)
(***************************************************************************)
\* the per-stream loop: private streams (id < 0xc0) are coded once as 0xbd
RECURSIVE SystemHeaderStreams(_, _, _)
SystemHeaderStreams(infos, i, private_stream_coded) ==
    IF i > Len(infos) THEN <<>>
    ELSE LET stream == infos[i]
             private == stream.id < \hC0
             id == IF private THEN \hBD ELSE stream.id
         IN  IF private /\ private_stream_coded
             THEN SystemHeaderStreams(infos, i + 1, private_stream_coded)
             ELSE Concat(<<
                    put_bits(8, id),
                    put_bits(2, 3),
                    IF id < \hE0
                    THEN put_bits(1, 0) \o put_bits(13, stream.max_buffer_size \div 128)
                    ELSE put_bits(1, 1) \o put_bits(13, stream.max_buffer_size \div 1024) >>)
                  \o SystemHeaderStreams(infos, i + 1, private_stream_coded \/ private)

put_system_header(s, infos) ==
    LET buf == flush_put_bits(Concat(<<
                   put_bits(32, SYSTEM_HEADER_START_CODE),
                   put_bits(16, 0),
                   put_bits(1, 1),
                   put_bits(22, s.mux_rate),
                   put_bits(1, 1),
                   put_bits(6, s.audio_bound),
                   put_bits(1, 1),
                   put_bits(1, 1),
                   put_bits(1, 0),
                   put_bits(1, 0),
                   put_bits(1, 1),
                   put_bits(5, s.video_bound),
                   put_bits(8, \hFF),
                   SystemHeaderStreams(infos, 1, FALSE) >>))
        size == Len(buf)
    IN  [k \in 1..size |-> IF k = 5 THEN Shr(size - 6, 8) % 256
                           ELSE IF k = 6 THEN (size - 6) % 256
                           ELSE buf[k]]

(***************************************************************************)
(* Stream parameters the caller hands to mpeg_mux_init (st->codec)         *)
(***************************************************************************)
Codec(kind, bit_rate) ==
    IF kind = "mpa"
    THEN [codec_type |-> "audio", codec_id |-> "mp2", bit_rate |-> bit_rate,
          sample_rate |-> 44100, frame_size |-> 1152, frame_rate |-> 0]
    ELSE IF kind = "ac3"
    THEN [codec_type |-> "audio", codec_id |-> "ac3", bit_rate |-> bit_rate,
          sample_rate |-> 48000, frame_size |-> 1536, frame_rate |-> 0]
    ELSE [codec_type |-> "video", codec_id |-> "mpeg1video", bit_rate |-> bit_rate,
          sample_rate |-> 0, frame_size |-> 0, frame_rate |-> 30 * FRAME_RATE_BASE]

StreamConfigs ==
    { <<"mpa">>, <<"ac3">>, <<"video">>,
      <<"mpa", "video">>, <<"video", "ac3">>, <<"ac3", "mpa">>, <<"video", "video">> }

(***************************************************************************)
(* mpeg_mux_init                                                           *)
(***************************************************************************)
PacketSize(is_vcd) == IF is_vcd THEN VCD_PACKET_SIZE ELSE DEFAULT_PACKET_SIZE

PacketDataMaxSize(packet_size) == packet_size - 7

\* the first loop: ids are handed out per kind, in declaration order
RECURSIVE AssignIds(_, _, _, _, _)
AssignIds(codecs, i, mpa_id, ac3_id, mpv_id) ==
    IF i > Len(codecs) THEN <<>>
    ELSE IF codecs[i].codec_type = "audio"
    THEN IF codecs[i].codec_id = "ac3"
         THEN <<[id |-> ac3_id, max_buffer_size |-> AUDIO_MAX_BUFFER_SIZE]>>
              \o AssignIds(codecs, i + 1, mpa_id, ac3_id + 1, mpv_id)
         ELSE <<[id |-> mpa_id, max_buffer_size |-> AUDIO_MAX_BUFFER_SIZE]>>
              \o AssignIds(codecs, i + 1, mpa_id + 1, ac3_id, mpv_id)
    ELSE <<[id |-> mpv_id, max_buffer_size |-> VIDEO_MAX_BUFFER_SIZE]>>
         \o AssignIds(codecs, i + 1, mpa_id, ac3_id, mpv_id + 1)

RECURSIVE SumBitRate(_, _)
SumBitRate(codecs, i) ==
    IF i > Len(codecs) THEN 0 ELSE codecs[i].bit_rate + SumBitRate(codecs, i + 1)

MuxBitrate(codecs) == BITRATE_HEADROOM + SumBitRate(codecs, 1)

MuxRate(bitrate) == (bitrate + (8 * 50) - 1) \div (8 * 50)

PackHeaderFreq(is_vcd, is_mpeg2, bitrate, packet_size) ==
    IF is_vcd \/ is_mpeg2 THEN 1 ELSE ((2 * bitrate) \div packet_size) \div 8

SystemHeaderFreq(is_vcd, pack_header_freq) ==
    IF is_vcd THEN pack_header_freq * 40 ELSE pack_header_freq * 5

StreamTicker(codec) ==
    IF codec.codec_type = "audio"
    THEN ticker_init(codec.sample_rate, 90000 * codec.frame_size)
    ELSE ticker_init(codec.frame_rate, 90000 * FRAME_RATE_BASE)

mpeg_mux_init(oformat, codecs) ==
    LET is_vcd == oformat = "vcd"
        is_mpeg2 == oformat = "vob"
        packet_size == PacketSize(is_vcd)
        ids == AssignIds(codecs, 1, AUDIO_ID, AC3_ID, VIDEO_ID)
        bitrate == MuxBitrate(codecs)
        pack_header_freq == PackHeaderFreq(is_vcd, is_mpeg2, bitrate, packet_size)
    IN  [ oformat |-> oformat,
          nb_streams |-> Len(codecs),
          streams |-> [i \in 1..Len(codecs) |->
              [ codec |-> codecs[i],
                priv_data |->
                  [ buffer |-> <<>>,
                    buffer_ptr |-> 0,
                    id |-> ids[i].id,
                    max_buffer_size |-> ids[i].max_buffer_size,
                    packet_number |-> 0,
                    pts |-> 0,
                    pts_ticker |-> StreamTicker(codecs[i]),
                    start_pts |-> PTS_UNSET ] ] ],
          priv_data |->
              [ packet_size |-> packet_size,
                packet_data_max_size |-> PacketDataMaxSize(packet_size),
                packet_number |-> 0,
                pack_header_freq |-> pack_header_freq,
                system_header_freq |-> SystemHeaderFreq(is_vcd, pack_header_freq),
                mux_rate |-> MuxRate(bitrate),
                audio_bound |-> Cardinality({i \in 1..Len(codecs) : codecs[i].codec_type = "audio"}),
                video_bound |-> Cardinality({i \in 1..Len(codecs) : codecs[i].codec_type = "video"}),
                is_mpeg2 |-> is_mpeg2,
                is_vcd |-> is_vcd ],
          pb |-> <<>>,
          \* history, not program state: one record per flush_packet call
          packets |-> <<>> ]

(***************************************************************************)
(* flush_packet                                                            *)
(***************************************************************************)
\* a cadence that is off by one packet: headers before packets 1, f+1, ...
PackHeaderDueLate(s) == ((s.packet_number + 1) % s.pack_header_freq) = 0

PackHeaderDue(s) == (s.packet_number % s.pack_header_freq) = 0

SystemHeaderDue(s) == (s.packet_number % s.system_header_freq) = 0

\* a header length that forgets the three bytes of the MPEG-2 header
HeaderLenFive(s) == 5

HeaderLen(s) == IF s.is_mpeg2 THEN 8 ELSE 5

StartCode(id) == IF id < \hC0 THEN PRIVATE_STREAM_1 ELSE \h100 + id

\* a payload size that leaves no room for the pack and system header
PayloadSizeNoPreface(s, size, header_len, last, id) ==
    LET payload_size == s.packet_size - (6 + header_len + last)
    IN  IF id < \hC0 THEN payload_size - 4 ELSE payload_size

PayloadSize(s, size, header_len, last, id) ==
    LET payload_size == s.packet_size - (size + 6 + header_len + last)
    IN  IF id < \hC0 THEN payload_size - 4 ELSE payload_size

StuffingSize(payload_size, buffer_ptr) == Max(0, payload_size - buffer_ptr)

\* timestamp bytes whose middle field is taken from bit 14 instead of bit 15
put_pts_shift14(timestamp) ==
    << (2 * 16) + (LowBits(Shr(timestamp, 30), 3) * 2) + 1 >>
    \o put_be16(LowBits(LowBits(Shr(timestamp, 14), 15) * 2 + 1, 16))
    \o put_be16(LowBits(LowBits(timestamp, 15) * 2 + 1, 16))

\* the five timestamp bytes of the PES header
put_pts(timestamp) ==
    << (2 * 16) + (LowBits(Shr(timestamp, 30), 3) * 2) + 1 >>
    \o put_be16(LowBits(LowBits(Shr(timestamp, 15), 15) * 2 + 1, 16))
    \o put_be16(LowBits(LowBits(timestamp, 15) * 2 + 1, 16))

PrivateHeader(startcode, id) ==
    IF startcode = PRIVATE_STREAM_1
    THEN <<id>> \o (IF id >= \h80 /\ id <= \hBF THEN <<1, 0, 2>> ELSE <<>>)
    ELSE <<>>

\* a tail that is one byte short
LeftoverShort(buffer_ptr, payload_size) == Max(0, buffer_ptr - payload_size - 1)

Leftover(buffer_ptr, payload_size) == Max(0, buffer_ptr - payload_size)

flush_packet(c, stream_index, last_pkt) ==
    LET s == c.priv_data
        stream == c.streams[stream_index].priv_data
        last == IF last_pkt THEN 4 ELSE 0
        id == stream.id
        timestamp == stream.start_pts
        pack == PackHeaderDue(s)
        sys == pack /\ SystemHeaderDue(s)
        infos == [i \in 1..c.nb_streams |-> c.streams[i].priv_data]
        buffer == (IF pack THEN put_pack_header(s, timestamp) ELSE <<>>)
                  \o (IF sys THEN put_system_header(s, infos) ELSE <<>>)
        size == Len(buffer)
        header_len == HeaderLen(s)
        payload_size == PayloadSize(s, size, header_len, last, id)
        startcode == StartCode(id)
        stuffing_size == StuffingSize(payload_size, stream.buffer_ptr)
        head == Concat(<<
                  buffer,
                  put_be32(startcode),
                  put_be16(payload_size + header_len),
                  [i \in 1..stuffing_size |-> \hFF],
                  IF s.is_mpeg2 THEN <<\h80, \h80, \h05>> ELSE <<>>,
                  put_pts(timestamp),
                  PrivateHeader(startcode, id),
                  IF last_pkt THEN put_be32(ISO_11172_END_CODE) ELSE <<>> >>)
        data == SubSeq(stream.buffer, 1, payload_size - stuffing_size)
        len == Leftover(stream.buffer_ptr, payload_size)
        entry == [ stream_index |-> stream_index,
                   id |-> id,
                   last_pkt |-> last_pkt,
                   timestamp |-> timestamp,
                   pack |-> pack,
                   sys |-> sys,
                   offset |-> Len(c.pb),
                   size |-> size,
                   startcode |-> startcode,
                   header_len |-> header_len,
                   payload_size |-> payload_size,
                   stuffing_size |-> stuffing_size,
                   data_offset |-> Len(c.pb) + Len(head),
                   data_len |-> Len(data),
                   buffer_ptr |-> stream.buffer_ptr,
                   left |-> len,
                   end |-> Len(c.pb) + Len(head) + Len(data) ]
    IN  [c EXCEPT
           !.pb = @ \o head \o data,
           !.streams[stream_index].priv_data =
               [@ EXCEPT !.buffer = SubSeq(stream.buffer, stream.buffer_ptr - len + 1,
                                           stream.buffer_ptr),
                         !.buffer_ptr = len,
                         !.packet_number = @ + 1,
                         !.start_pts = PTS_UNSET],
           !.priv_data.packet_number = @ + 1,
           !.packets = Append(@, entry)]

(***************************************************************************)
(* mpeg_mux_write_packet                                                   *)
(***************************************************************************)
\* lines 366-370: stamp the buffer with the current pts
StampPts(stream, force_pts) ==
    IF stream.start_pts = PTS_UNSET
    THEN LET pts == IF force_pts # 0 THEN force_pts ELSE stream.pts
         IN  [stream EXCEPT !.pts = pts, !.start_pts = pts]
    ELSE stream

\* lines 378-383: flush while the buffer holds a full packet
RECURSIVE FlushFull(_, _)
FlushFull(c, stream_index) ==
    LET s == c.priv_data
        stream == c.streams[stream_index].priv_data
    IN  IF stream.buffer_ptr >= s.packet_data_max_size
        THEN LET c1 == IF stream.start_pts = PTS_UNSET
                       THEN [c EXCEPT !.streams[stream_index].priv_data.start_pts = stream.pts]
                       ELSE c
             IN  FlushFull(flush_packet(c1, stream_index, FALSE), stream_index)
        ELSE c

\* the loop over the input without the limit of lines 372-373 on len
RECURSIVE CopyLoopNoClamp(_, _, _, _, _, _)
CopyLoopNoClamp(c, stream_index, buf, pos, size, force_pts) ==
    IF size > 0
    THEN LET stream == StampPts(c.streams[stream_index].priv_data, force_pts)
             filled == [stream EXCEPT !.buffer = @ \o SubSeq(buf, pos + 1, pos + size),
                                      !.buffer_ptr = @ + size]
             c1 == [c EXCEPT !.streams[stream_index].priv_data = filled]
         IN  FlushFull(c1, stream_index)
    ELSE c

\* lines 364-384: the loop over the input, buf[pos+1 .. pos+size] still to copy
RECURSIVE CopyLoop(_, _, _, _, _, _)
CopyLoop(c, stream_index, buf, pos, size, force_pts) ==
    IF size > 0
    THEN LET s == c.priv_data
             stream == StampPts(c.streams[stream_index].priv_data, force_pts)
             len == Min(s.packet_data_max_size - stream.buffer_ptr, size)
             filled == [stream EXCEPT !.buffer = @ \o SubSeq(buf, pos + 1, pos + len),
                                      !.buffer_ptr = @ + len]
             c1 == [c EXCEPT !.streams[stream_index].priv_data = filled]
         IN  CopyLoop(FlushFull(c1, stream_index), stream_index, buf, pos + len,
                      size - len, force_pts)
    ELSE c

\* line 386: one tick per call
\* a tick whose increment replaces pts where line 386 adds it
AdvancePtsAssign(stream) ==
    [stream EXCEPT !.pts = ticker_value(stream.pts_ticker, 1),
                   !.pts_ticker = ticker_tick(stream.pts_ticker, 1)]

AdvancePts(stream) ==
    [stream EXCEPT !.pts = @ + ticker_value(stream.pts_ticker, 1),
                   !.pts_ticker = ticker_tick(stream.pts_ticker, 1)]

mpeg_mux_write_packet(c, stream_index, buf, size, force_pts) ==
    LET c1 == CopyLoop(c, stream_index, buf, 0, size, force_pts)
    IN  [c1 EXCEPT !.streams[stream_index].priv_data = AdvancePts(@)]

(***************************************************************************)
(* mpeg_mux_end                                                            *)
(***************************************************************************)
IsLastStream(c, i) == i = c.nb_streams

RECURSIVE EndLoop(_, _)
EndLoop(c, i) ==
    IF i > c.nb_streams THEN c
    ELSE IF c.streams[i].priv_data.buffer_ptr > 0
    THEN EndLoop(flush_packet(c, i, IsLastStream(c, i)), i + 1)
    ELSE EndLoop(c, i + 1)

mpeg_mux_end(c) == EndLoop(c, 1)

(***************************************************************************)
(* Byte source helpers.  Reading at the end of the input yields 0 and      *)
(* leaves the position at the end.                                         *)
(***************************************************************************)
url_feof(b, pos) == pos >= Len(b)

get_byte(b, pos) == IF pos < Len(b) THEN b[pos + 1] ELSE 0

get_be16(b, pos) == get_byte(b, pos) * 256 + get_byte(b, pos + 1)

url_fskip(b, pos, n) == Max(0, Min(pos + n, Len(b)))

get_buffer(b, pos, n) == SubSeq(b, pos + 1, Min(pos + n, Len(b)))

(***************************************************************************)
(* mpegps_probe                                                            *)
(***************************************************************************)
\* the test of lines 433-440 without its last line
IsPSCodeNoPadding(code) ==
    \/ code = PACK_START_CODE
    \/ code = SYSTEM_HEADER_START_CODE
    \/ (code >= \h1E0 /\ code <= \h1EF)
    \/ (code >= \h1C0 /\ code <= \h1DF)
    \/ code = PRIVATE_STREAM_2
    \/ code = PROGRAM_STREAM_MAP
    \/ code = PRIVATE_STREAM_1

IsPSCode(code) ==
    \/ code = PACK_START_CODE
    \/ code = SYSTEM_HEADER_START_CODE
    \/ (code >= \h1E0 /\ code <= \h1EF)
    \/ (code >= \h1C0 /\ code <= \h1DF)
    \/ code = PRIVATE_STREAM_2
    \/ code = PROGRAM_STREAM_MAP
    \/ code = PRIVATE_STREAM_1
    \/ code = PADDING_STREAM

\* the loop of mpegps_probe from index i (0-based) with the running code, kept
\* as its four bytes <<b3, b2, b1, b0>> since code << 8 drops the top byte
RECURSIVE ProbeLoop(_, _, _)
ProbeLoop(buf, i, code) ==
    IF i >= Len(buf) THEN 0
    ELSE LET c == buf[i + 1]
             next == <<code[2], code[3], code[4], c>>
         IN  IF next[1] = 0 /\ next[2] = 0 /\ next[3] = 1
             THEN IF IsPSCode(\h100 + c) THEN AVPROBE_SCORE_MAX - 1 ELSE 0
             ELSE ProbeLoop(buf, i + 1, next)

mpegps_probe(buf) == ProbeLoop(buf, 0, <<0, 0, 0, \hFF>>)

(***************************************************************************)
(* find_start_code                                                         *)
(***************************************************************************)
\* the 24-bit shift register after the bytes b[pos+1 .. k] went through it
StateAfter(b, pos, k, state) ==
    IF k - pos >= 3 THEN b[k - 2] * 65536 + b[k - 1] * 256 + b[k]
    ELSE IF k - pos = 2 THEN (state % 256) * 65536 + b[k - 1] * 256 + b[k]
    ELSE IF k - pos = 1 THEN (state % 65536) * 256 + b[k]
    ELSE state

\* The scan loop, in closed form: it stops at the first byte read while the
\* register holds 000001, or when the budget n or the input runs out.
find_start_code(b, pos, n, state) ==
    LET stop == Min(Len(b), pos + n)
        hit(k) == StateAfter(b, pos, k - 1, state) = 1
        hits == \E k \in (pos + 1)..stop : hit(k)
        at == CHOOSE k \in (pos + 1)..stop :
                  hit(k) /\ \A j \in (pos + 1)..(k - 1) : ~hit(j)
    IN  IF hits
        THEN [val |-> \h100 + b[at], pos |-> at, n |-> n - (at - pos),
              state |-> StateAfter(b, pos, at, state) ]
        ELSE [val |-> -1, pos |-> Max(pos, stop), n |-> n - (Max(pos, stop) - pos),
              state |-> StateAfter(b, pos, Max(pos, stop), state) ]

(***************************************************************************)
(* get_pts: a 33-bit timestamp as <<bits 32..30, bits 29..0>>              *)
(***************************************************************************)
NoPts == <<0, 0>>

get_pts(b, pos, c) ==
    LET c1 == IF c < 0 THEN get_byte(b, pos) ELSE c
        p == IF c < 0 THEN pos + 1 ELSE pos
        val1 == get_be16(b, p)
        val2 == get_be16(b, p + 2)
    IN  [pts |-> << Shr(c1, 1) % 8, Shr(val1, 1) * 32768 + Shr(val2, 1) >>,
         pos |-> Min(p + 4, Len(b))]

\* what a 64-bit timestamp becomes when written to and read from a PES header
Pts33(timestamp) == << LowBits(Shr(timestamp, 30), 3), LowBits(timestamp, 30) >>

(***************************************************************************)
(* mpegps_read_packet                                                      *)
(***************************************************************************)
\* lines 542-548: the stuffing loop, in closed form: c is the first byte that
\* is not 0xff (0 at the end of the input), len drops by the bytes read
SkipStuffing(b, pos, len) ==
    LET at == CHOOSE k \in (pos + 1)..(Len(b) + 1) :
                  /\ (k = Len(b) + 1 \/ b[k] # \hFF)
                  /\ \A j \in (pos + 1)..(k - 1) : b[j] = \hFF
    IN  [c |-> get_byte(b, at - 1), pos |-> Min(at, Len(b)), len |-> len - (at - pos)]

\* lines 549-554: buffer scale and size
SkipBufferScale(b, h) ==
    IF Shr(h.c, 6) = 1
    THEN [c |-> get_byte(b, h.pos + 1), pos |-> Min(h.pos + 2, Len(b)), len |-> h.len - 2]
    ELSE h

\* an MPEG-2 header parse that reads the timestamps without taking their
\* bytes off len
Mpeg2TimestampsKeepLen(b, pos, len, flags, header_len) ==
    LET onlyPts == Shr(flags, 6) = 2
        t1 == IF onlyPts THEN get_pts(b, pos, -1) ELSE [pts |-> NoPts, pos |-> pos]
        hl1 == IF onlyPts THEN header_len - 5 ELSE header_len
        both == Shr(flags, 6) = 3
        t2 == IF both THEN get_pts(b, t1.pos, -1) ELSE t1
        t3 == IF both THEN get_pts(b, t2.pos, -1) ELSE t2
        hl2 == IF both THEN hl1 - 10 ELSE hl1
    IN  [kind |-> "ok",
         pts |-> t2.pts,
         dts |-> IF both THEN t3.pts ELSE t2.pts,
         len |-> len - hl2,
         pos |-> Min(t3.pos + Max(hl2, 0), Len(b))]

\* lines 574-589: the timestamps and the rest of an MPEG-2 PES header
Mpeg2Timestamps(b, pos, len, flags, header_len) ==
    LET onlyPts == Shr(flags, 6) = 2
        t1 == IF onlyPts THEN get_pts(b, pos, -1) ELSE [pts |-> NoPts, pos |-> pos]
        hl1 == IF onlyPts THEN header_len - 5 ELSE header_len
        len1 == IF onlyPts THEN len - 5 ELSE len
        both == Shr(flags, 6) = 3
        t2 == IF both THEN get_pts(b, t1.pos, -1) ELSE t1
        t3 == IF both THEN get_pts(b, t2.pos, -1) ELSE t2
        hl2 == IF both THEN hl1 - 10 ELSE hl1
        len2 == IF both THEN len1 - 10 ELSE len1
    IN  [kind |-> "ok",
         pts |-> t2.pts,
         dts |-> IF both THEN t3.pts ELSE t2.pts,
         len |-> len2 - hl2,
         pos |-> Min(t3.pos + Max(hl2, 0), Len(b))]

\* lines 555-590: the timestamps of the PES header that starts with byte c
PesTimestamps(b, h) ==
    IF Shr(h.c, 4) = 2
    THEN LET t == get_pts(b, h.pos, h.c)
         IN  [kind |-> "ok", pts |-> t.pts, dts |-> t.pts, len |-> h.len - 4, pos |-> t.pos]
    ELSE IF Shr(h.c, 4) = 3
    THEN LET t == get_pts(b, h.pos, h.c)
             d == get_pts(b, t.pos, -1)
         IN  [kind |-> "ok", pts |-> t.pts, dts |-> d.pts, len |-> h.len - 9, pos |-> d.pos]
    ELSE IF Shr(h.c, 6) = 2
    THEN IF Shr(h.c, 4) % 4 # 0
         THEN [kind |-> "eio", pts |-> NoPts, dts |-> NoPts, len |-> h.len, pos |-> h.pos]
         ELSE LET flags == get_byte(b, h.pos)
                  header_len == get_byte(b, h.pos + 1)
                  len == h.len - 2
                  pos == Min(h.pos + 2, Len(b))
              IN  IF header_len > len
                  THEN [kind |-> "redo", pts |-> NoPts, dts |-> NoPts, len |-> len, pos |-> pos]
                  ELSE Mpeg2Timestamps(b, pos, len, flags, header_len)
    ELSE [kind |-> "ok", pts |-> NoPts, dts |-> NoPts, len |-> h.len, pos |-> h.pos]

\* lines 591-601: a private stream 1 packet names its stream in its first byte
PrivateStream(b, startcode, t) ==
    IF startcode = PRIVATE_STREAM_1
    THEN LET sub == get_byte(b, t.pos)
         IN  IF sub >= \h80 /\ sub <= \hBF
             THEN [startcode |-> sub, len |-> t.len - 4, pos |-> Min(t.pos + 4, Len(b))]
             ELSE [startcode |-> sub, len |-> t.len - 1, pos |-> Min(t.pos + 1, Len(b))]
    ELSE [startcode |-> startcode, len |-> t.len, pos |-> t.pos]

\* a lookup that never finds the stream
FindStreamNone(streams, startcode) == 0

\* lines 604-608: the index (1-based) of the stream with this id, 0 if none
FindStream(streams, startcode) ==
    IF \E i \in 1..Len(streams) : streams[i].id = startcode
    THEN CHOOSE i \in 1..Len(streams) :
             /\ streams[i].id = startcode
             /\ \A j \in 1..(i - 1) : streams[j].id # startcode
    ELSE 0

\* lines 609-623: the kind of stream an id stands for, "none" if it is skipped
StreamKind(startcode) ==
    IF startcode >= \h1E0 /\ startcode <= \h1EF
    THEN [codec_type |-> "video", codec_id |-> "mpeg1video"]
    ELSE IF startcode >= \h1C0 /\ startcode <= \h1DF
    THEN [codec_type |-> "audio", codec_id |-> "mp2"]
    ELSE IF startcode >= \h80 /\ startcode <= \h9F
    THEN [codec_type |-> "audio", codec_id |-> "ac3"]
    ELSE [codec_type |-> "none", codec_id |-> "none"]

IsPesStartCode(startcode) ==
    \/ (startcode >= \h1C0 /\ startcode <= \h1DF)
    \/ (startcode >= \h1E0 /\ startcode <= \h1EF)
    \/ startcode = \h1BD

NoPacket == [stream_index |-> -1, id |-> -1, size |-> 0, data |-> <<>>, pts |-> NoPts]

Redo(pos) == [redo |-> TRUE, pos |-> pos]

\* F applied to the value of x, with x evaluated once
Once(F(_), x) == CHOOSE r \in { F(v) : v \in {x} } : TRUE

\* lines 521-637: what a pass does with the start code f it found, h being
\* the header after stuffing and buffer scale, t the timestamps and p the
\* effective stream id
PassBody(b, streams, f, h, t, p) ==
    LET startcode == f.val
        fail == [redo |-> FALSE, ret |-> -EIO, pkt |-> NoPacket, pos |-> f.pos,
                 streams |-> streams, header_state |-> f.state]
    IN  IF startcode < 0 THEN fail
        ELSE IF startcode = PACK_START_CODE \/ startcode = SYSTEM_HEADER_START_CODE
        THEN Redo(f.pos)
        ELSE IF startcode = PADDING_STREAM \/ startcode = PRIVATE_STREAM_2
        THEN Redo(url_fskip(b, Min(f.pos + 2, Len(b)), get_be16(b, f.pos)))
        ELSE IF ~IsPesStartCode(startcode)
        THEN Redo(f.pos)
        ELSE LET i == FindStream(streams, p.startcode)
                 kind == StreamKind(p.startcode)
                 table == IF i = 0
                          THEN Append(streams, [index |-> Len(streams), id |-> p.startcode,
                                                codec_type |-> kind.codec_type,
                                                codec_id |-> kind.codec_id])
                          ELSE streams
                 st == IF i = 0 THEN table[Len(table)] ELSE streams[i]
             IN  IF t.kind = "eio" THEN [fail EXCEPT !.pos = t.pos]
                 ELSE IF t.kind = "redo" THEN Redo(t.pos)
                 ELSE IF i = 0 /\ kind.codec_type = "none"
                 THEN Redo(url_fskip(b, p.pos, p.len))
                 ELSE [redo |-> FALSE,
                       ret |-> 0,
                       pkt |-> [stream_index |-> st.index, id |-> p.startcode,
                                size |-> p.len, data |-> get_buffer(b, p.pos, p.len),
                                pts |-> t.pts],
                       \* history: the declared length, the offset after the
                       \* length field and the offset of the data
                       hdr |-> [declared |-> get_be16(b, f.pos), body |-> f.pos + 2,
                                data |-> p.pos],
                       pos |-> url_fskip(b, p.pos, Max(p.len, 0)),
                       streams |-> table,
                       header_state |-> f.state]

\* One pass from the label redo to a return or to the next goto redo.  A
\* return carries ret (0 or -EIO), the packet, the position reached, the
\* stream table and the shift register.  The header fields are read only
\* when the branches before them are not taken; reading them ahead changes
\* nothing, since the pass keeps no position of its own.
ReadPass(b, pos0, streams) ==
    Once(LAMBDA f :
      Once(LAMBDA h :
        Once(LAMBDA t :
          Once(LAMBDA p : PassBody(b, streams, f, h, t, p),
               PrivateStream(b, f.val, t)),
          PesTimestamps(b, h)),
        SkipBufferScale(b, SkipStuffing(b, Min(f.pos + 2, Len(b)), get_be16(b, f.pos)))),
      find_start_code(b, pos0, MAX_SYNC_SIZE, \hFF))

RECURSIVE mpegps_read_packet(_, _, _)
mpegps_read_packet(b, pos0, streams) ==
    LET r == ReadPass(b, pos0, streams)
    IN  IF r.redo THEN mpegps_read_packet(b, r.pos, streams) ELSE r

mpegps_read_header == [open |-> TRUE, pb |-> <<>>, pos |-> 0, header_state |-> \hFF, streams |-> <<>>,
                       pkts |-> <<>>, hdrs |-> <<>>, ret |-> 0]

(***************************************************************************)
(* The caller of the muxer                                                 *)
(***************************************************************************)
\* the k-th byte (1-based) of the elementary stream handed to stream i
DataByte(i, k) == ((7 * k + 3 * i) % 251) + 1

Payload(i, from, size) == [j \in 1..size |-> DataByte(i, from + j)]

IdleCtx == [nb_streams |-> 0]

\* the sizes the caller writes: a few bytes, one byte less than a full buffer,
\* exactly a full buffer, and more than the buffer holds
WriteSizes(c) ==
    {SmallWrite, c.priv_data.packet_data_max_size - 1, c.priv_data.packet_data_max_size,
     BigWrite}

IdleRd == [open |-> FALSE]

IdleTk == [on |-> FALSE]

IdlePr == [on |-> FALSE]

\* what the caller did, kept beside the context: per stream the bytes handed
\* over, the write calls made and whether any call passed a force_pts
NoHistory(n) == [fed |-> [i \in 1..n |-> 0],
                 writes |-> [i \in 1..n |-> 0],
                 forced |-> [i \in 1..n |-> FALSE]]

InitMux(profiles, configs, rates) ==
    /\ pc = "mux"
    /\ \E oformat \in profiles, kinds \in configs, bit_rate \in rates :
         ctx = mpeg_mux_init(oformat, [i \in 1..Len(kinds) |-> Codec(kinds[i], bit_rate)])
    /\ calls = NoHistory(ctx.nb_streams)
    /\ rd = IdleRd
    /\ pr = IdlePr

Init ==
    /\ InitMux(Profiles, StreamConfigs, BitRates)
    /\ tk = IdleTk

NumCalls == LET RECURSIVE Sum(_)
                Sum(i) == IF i = 0 THEN 0 ELSE calls.writes[i] + Sum(i - 1)
            IN  Sum(ctx.nb_streams)

WritePacket ==
    /\ pc = "mux"
    /\ NumCalls < MaxWrites
    /\ \E stream_index \in 1..ctx.nb_streams, size \in WriteSizes(ctx), force_pts \in ForcePts :
         /\ ctx' = mpeg_mux_write_packet(ctx, stream_index,
                       Payload(stream_index, calls.fed[stream_index], size),
                       size, force_pts)
         /\ calls' = [calls EXCEPT !.fed[stream_index] = @ + size,
                                   !.writes[stream_index] = @ + 1,
                                   !.forced[stream_index] = @ \/ force_pts # 0]
    /\ UNCHANGED <<pc, rd, tk, pr>>

End ==
    /\ pc = "mux"
    /\ ctx' = mpeg_mux_end(ctx)
    /\ pc' = "muxed"
    /\ UNCHANGED <<calls, rd, tk, pr>>

Next == WritePacket \/ End

Spec == Init /\ [][Next]_vars

(***************************************************************************)
(* The caller of the demuxer                                               *)
(***************************************************************************)
\* the file the muxer wrote is opened for reading
ReadHeader ==
    /\ pc = "muxed"
    /\ rd' = [mpegps_read_header EXCEPT !.pb = ctx.pb]
    /\ pc' = "demux"
    /\ UNCHANGED <<ctx, calls, tk, pr>>

ReadPacket ==
    /\ pc = "demux"
    /\ \E r \in {mpegps_read_packet(rd.pb, rd.pos, rd.streams)} :
           rd' = [rd EXCEPT !.pos = r.pos,
                            !.header_state = r.header_state,
                            !.streams = r.streams,
                            !.ret = r.ret,
                            !.pkts = IF r.ret = 0 THEN Append(@, r.pkt) ELSE @,
                            !.hdrs = IF r.ret = 0 THEN Append(@, r.hdr) ELSE @]
    /\ UNCHANGED <<pc, ctx, calls, tk, pr>>

NextRoundTrip == WritePacket \/ End \/ ReadHeader \/ ReadPacket

\* the files that are read back: one audio stream of either codec, or audio
\* beside video
RoundTripConfigs == { <<"mpa">>, <<"ac3">>, <<"mpa", "video">> }

InitRoundTrip ==
    /\ InitMux(Profiles, RoundTripConfigs, {8000})
    /\ tk = IdleTk

SpecRoundTrip == InitRoundTrip /\ [][NextRoundTrip]_vars

(***************************************************************************)
(* The demuxer on arbitrary input: a few chunks, each a start code with    *)
(* what may follow it, put one after the other                             *)
(***************************************************************************)
MaxChunks == 3

Pes(code, declared, body) == <<0, 0, 1, code>> \o put_be16(declared) \o body

\* five timestamp bytes with the given first byte; they decode to <<0, 65539>>
Ts(first) == <<first, \h00, \h05, \h00, \h07>>

TsOther == <<\h11, \h00, \h03, \h00, \h01>>

\* start code 0x1E0, one stuffing byte, an MPEG-2 header announcing PTS and
\* DTS in ten bytes, then n payload bytes
Mpeg2PtsDts(declared, n) ==
    Pes(\hE0, declared, <<\hFF, \h80, \hC0, \h0A>> \o Ts(\h31) \o TsOther
                         \o [j \in 1..n |-> \h4A + j])

PackChunk == <<0, 0, 1, \hBA>>

PaddingChunk == Pes(\hBE, 2, <<\hFF, \hFF>>)

EndCodeChunk == <<0, 0, 1, \hB9>>

Mpeg1AudioChunk == Pes(\hC0, 7, Ts(\h21) \o <<\h41, \h42>>)

Mpeg1VideoChunk == Pes(\hE0, 13, <<\h60, \h2E>> \o Ts(\h31) \o TsOther \o <<\h43>>)

Ac3Chunk == Pes(\hBD, 11, Ts(\h21) \o <<\h80, 1, 0, 2>> \o <<\h44, \h45>>)

UnknownSubChunk == Pes(\hBD, 3, <<\h0F, \h20, \h46>>)

EncryptedChunk == Pes(\hE0, 4, <<\h90, \h00, \h00, \h47>>)

LongHeaderChunk == Pes(\hC1, 3, <<\h80, \h00, \h09>>)

Mpeg2AudioChunk == Pes(\hC1, 9, <<\h80, \h80, \h05>> \o Ts(\h21) \o <<\h48>>)

PlainVideoChunk == Pes(\hE1, 2, <<\h0F, \h49>>)

ShortHeaderChunk == Pes(\hE0, 9, <<\h80, \h80, \h00>> \o Ts(\h21) \o <<\h4A>>)

BareCodeChunk == <<0, 0, 1, \hC0>>

DemuxChunks ==
    { PackChunk, PaddingChunk, EndCodeChunk, Mpeg1AudioChunk, Mpeg1VideoChunk, Ac3Chunk,
      UnknownSubChunk, EncryptedChunk, LongHeaderChunk, Mpeg2AudioChunk, PlainVideoChunk,
      ShortHeaderChunk, BareCodeChunk,
      Mpeg2PtsDts(14, 1), Mpeg2PtsDts(15, 1), Mpeg2PtsDts(15, 2), Mpeg2PtsDts(16, 2) }

InitDemux ==
    /\ pc = "demux"
    /\ ctx = IdleCtx
    /\ calls = NoHistory(0)
    /\ \E n \in 0..MaxChunks :
         \E chunks \in [1..n -> DemuxChunks] :
             rd = [mpegps_read_header EXCEPT !.pb = Concat(chunks)]
    /\ tk = IdleTk
    /\ pr = IdlePr

SpecDemux == InitDemux /\ [][ReadPacket]_vars

(***************************************************************************)
(* mpegps_probe on arbitrary buffers                                       *)
(***************************************************************************)
MaxProbeLen == 5

ProbeAlphabet == {\h00, \h01, \hBA, \hAA}

ProbeInputs ==
    UNION { [1..n -> ProbeAlphabet] : n \in 0..MaxProbeLen }
    \cup { pre \o <<0, 0, 1, x>> \o post :
             pre \in {<<>>, <<0>>, <<\hAA, \hBB>>},
             x \in 0..255,
             post \in {<<>>, <<0, 0, 1, \hBA>>} }
    \cup { <<\h11, \h22, \h33>> }

InitProbe ==
    /\ pc = "probe"
    /\ ctx = IdleCtx
    /\ calls = NoHistory(0)
    /\ rd = IdleRd
    /\ tk = IdleTk
    /\ \E buf \in ProbeInputs : pr = [on |-> TRUE, buf |-> buf, done |-> FALSE, score |-> 0]

Probe ==
    /\ pc = "probe"
    /\ ~pr.done
    /\ pr' = [pr EXCEPT !.done = TRUE, !.score = mpegps_probe(pr.buf)]
    /\ UNCHANGED <<pc, ctx, calls, rd, tk>>

SpecProbe == InitProbe /\ [][Probe]_vars

(***************************************************************************)
(* The ticker on its own, and in a stream that is written frame by frame   *)
(***************************************************************************)
MaxTickNum == 7

MaxTickDen == 5

MaxTickN == 3

MaxTicks == 3

InitTicker ==
    /\ InitMux({"mpeg"}, {<<"mpa">>, <<"ac3">>, <<"video">>}, {8000})
    /\ \E num \in 0..MaxTickNum, den \in 1..MaxTickDen :
         tk = [on |-> TRUE, t |-> ticker_init(den, num), asked |-> 0, given |-> 0, n |-> 0]

Tick ==
    /\ tk.on
    /\ tk.n < MaxTicks
    /\ \E n \in 0..MaxTickN :
         tk' = [tk EXCEPT !.t = ticker_tick(tk.t, n),
                          !.given = @ + ticker_value(tk.t, n),
                          !.asked = @ + n,
                          !.n = @ + 1]
    /\ UNCHANGED <<pc, ctx, calls, rd, pr>>

\* one frame of a few bytes per call
WriteFrame ==
    /\ pc = "mux"
    /\ NumCalls < MaxWrites
    /\ \E force_pts \in ForcePts :
         /\ ctx' = mpeg_mux_write_packet(ctx, 1, Payload(1, calls.fed[1], SmallWrite),
                                         SmallWrite, force_pts)
         /\ calls' = [calls EXCEPT !.fed[1] = @ + SmallWrite,
                                   !.writes[1] = @ + 1,
                                   !.forced[1] = @ \/ force_pts # 0]
    /\ UNCHANGED <<pc, rd, tk, pr>>

NextTicker == Tick \/ WriteFrame

SpecTicker == InitTicker /\ [][NextTicker]_vars

(***************************************************************************)
(* What the muxer emitted and what the demuxer returned, per stream        *)
(***************************************************************************)
\* the id under which the demuxer files the packets of a muxer stream
DemuxId(id) == IF id < \hC0 THEN id ELSE \h100 + id

PacketsOfStream(i) == SelectSeq(ctx.packets, LAMBDA e : e.stream_index = i)

\* the payload bytes the muxer emitted for stream i, read back from the sink
EmittedData(i) ==
    LET sel == PacketsOfStream(i)
    IN  Concat([k \in 1..Len(sel) |->
                   SubSeq(ctx.pb, sel[k].data_offset + 1, sel[k].data_offset + sel[k].data_len)])

MuxedPts(i) ==
    LET sel == PacketsOfStream(i)
    IN  [k \in 1..Len(sel) |-> Pts33(sel[k].timestamp)]

ReturnedTo(id) == SelectSeq(rd.pkts, LAMBDA p : p.id = id)

DemuxedData(id) ==
    LET sel == ReturnedTo(id)
    IN  Concat([k \in 1..Len(sel) |-> sel[k].data])

DemuxedPts(id) ==
    LET sel == ReturnedTo(id)
    IN  [k \in 1..Len(sel) |-> sel[k].pts]

DemuxAtEnd == pc = "demux" /\ rd.ret = -EIO /\ url_feof(rd.pb, rd.pos)

(***************************************************************************)
(* C1: round trip.  Once the demuxer has read the muxer's whole output,    *)
(* every stream got back exactly the bytes written to it, in order, and    *)
(* the timestamps of its packets are the muxed ones modulo 2^33.           *)
(***************************************************************************)
C1_RoundTrip ==
    DemuxAtEnd =>
        \A i \in 1..ctx.nb_streams :
            /\ DemuxedData(DemuxId(ctx.streams[i].priv_data.id))
                 = Payload(i, 0, calls.fed[i])
            /\ DemuxedPts(DemuxId(ctx.streams[i].priv_data.id)) = MuxedPts(i)

(***************************************************************************)
(* Measures on the emitted packets                                         *)
(***************************************************************************)
S == ctx.priv_data

\* where the PES packet of a flush starts: after the pack and system header
PesStart(e) == e.offset + e.size

BytesAt(b, off, n) == SubSeq(b, off + 1, off + n)

\* the flush wrote what its record says, where it says
WellPlaced(e) ==
    /\ BytesAt(ctx.pb, PesStart(e), 4) = put_be32(e.startcode)
    /\ e.pack <=> BytesAt(ctx.pb, e.offset, 4) = put_be32(PACK_START_CODE)
    /\ e.sys <=> (e.pack /\ BytesAt(ctx.pb, e.offset + 12, 4) = put_be32(SYSTEM_HEADER_START_CODE))

\* the start code after packet k: the next flush's first byte, or the end
NextStart(k) == IF k < Len(ctx.packets) THEN ctx.packets[k + 1].offset ELSE Len(ctx.pb)

CarriesEndCode(c, e) ==
    BytesAt(c.pb, e.data_offset - 4, 4) = put_be32(ISO_11172_END_CODE)

EndCodePackets(c) == {k \in 1..Len(c.packets) : CarriesEndCode(c, c.packets[k])}

EndCodePlaces(b) == {k \in 0..(Len(b) - 4) : BytesAt(b, k, 4) = put_be32(ISO_11172_END_CODE)}

Pending(c) == {i \in 1..c.nb_streams : c.streams[i].priv_data.buffer_ptr > 0}

Ending == pc = "mux" /\ pc' = "muxed"

(***************************************************************************)
(* C2 as claimed: every PES packet measures packet_size bytes from its     *)
(* own start code to the next start code, with or without a pack or system *)
(* header in front of it.                                                  *)
(***************************************************************************)
C2_PesPacketSize ==
    \A k \in 1..Len(ctx.packets) :
        NextStart(k) - PesStart(ctx.packets[k]) = S.packet_size

(***************************************************************************)
(* C2 as amended: what measures packet_size bytes is the unit one flush    *)
(* writes, from the first byte of the pack header (if any) to the next     *)
(* unit; the PES packet itself is shorter by the headers in front of it.   *)
(***************************************************************************)
C2_UnitSize ==
    \A k \in 1..Len(ctx.packets) :
        LET e == ctx.packets[k]
        IN  /\ WellPlaced(e)
            /\ e.end = NextStart(k)
            /\ NextStart(k) - e.offset = S.packet_size
            /\ NextStart(k) - PesStart(e) = S.packet_size - e.size
            /\ e.pack <=> e.size > 0
            /\ e.pack => e.size >= 12

C2_Witness ==
    \E k1, k2 \in 1..Len(ctx.packets) :
        /\ ctx.packets[k1].size > 0
        /\ ctx.packets[k2].size = 0
        /\ S.is_vcd = FALSE

(***************************************************************************)
(* C3: a pack header is in front of exactly the packets whose 0-based      *)
(* session index is a multiple of pack_header_freq, a system header in     *)
(* front of exactly those whose index is a multiple of system_header_freq; *)
(* right after a packet with a pack header, packet_number - 1 is such a    *)
(* multiple.                                                               *)
(***************************************************************************)
C3_HeaderCadence ==
    /\ S.packet_number = Len(ctx.packets)
    /\ \A k \in 1..Len(ctx.packets) :
        LET e == ctx.packets[k]
        IN  /\ WellPlaced(e)
            /\ e.pack <=> ((k - 1) % S.pack_header_freq = 0)
            /\ e.sys <=> ((k - 1) % S.system_header_freq = 0)
    /\ (Len(ctx.packets) > 0 /\ ctx.packets[Len(ctx.packets)].pack)
          => (S.packet_number - 1) % S.pack_header_freq = 0
    /\ (Len(ctx.packets) > 0 /\ ctx.packets[Len(ctx.packets)].sys)
          => (S.packet_number - 1) % S.system_header_freq = 0

\* a second system header is reached too (pack_header_freq = 1, index 5)
C3_SecondSystemHeader ==
    /\ \E k \in 2..Len(ctx.packets) : ctx.packets[k].sys
    /\ \E k \in 2..Len(ctx.packets) : ctx.packets[k].pack /\ ~ctx.packets[k].sys

C3_Witness ==
    /\ S.pack_header_freq > 1
    /\ \E k \in 2..Len(ctx.packets) : ctx.packets[k].pack
    /\ \E k \in 2..Len(ctx.packets) : ~ctx.packets[k].pack

(***************************************************************************)
(* C4: when mpeg_mux_end runs, exactly one packet carries the end code if  *)
(* any stream has residual data, whichever stream that is, and none does   *)
(* if no stream has residual data.                                         *)
(***************************************************************************)
C4_EndCodeCount ==
    [][Ending => Cardinality(EndCodePackets(ctx'))
                    = (IF Pending(ctx) # {} THEN 1 ELSE 0)]_vars

(***************************************************************************)
(* C5: after mpeg_mux_end on two streams that both have pending data, the  *)
(* end code appears exactly once in the output, after the last stream's    *)
(* final packet: it is the last thing written.                             *)
(***************************************************************************)
C5_EndCodeLast ==
    [][(Ending /\ ctx.nb_streams = 2 /\ Pending(ctx) = {1, 2})
          => /\ Cardinality(EndCodePlaces(ctx'.pb)) = 1
             /\ BytesAt(ctx'.pb, Len(ctx'.pb) - 4, 4) = put_be32(ISO_11172_END_CODE)]_vars

(***************************************************************************)
(* C6: within one stream the timestamps of successive PES packets never    *)
(* decrease (stated here for the streams whose caller never passed a       *)
(* force_pts, so that only the ticker moves pts).                          *)
(***************************************************************************)
C6_PtsMonotonic ==
    \A i \in 1..ctx.nb_streams :
        ~calls.forced[i] =>
            LET sel == PacketsOfStream(i)
            IN  \A k \in 1..(Len(sel) - 1) : sel[k].timestamp <= sel[k + 1].timestamp

(***************************************************************************)
(* C7: the ticker is drift-free.  The increments returned by any sequence  *)
(* of ticks add up to floor(num * (n_1 + ... + n_k) / den), less than 1    *)
(* below the ideal value, and a stream that was written k times, with no   *)
(* force_pts, has advanced by floor(k * unit / rate).                      *)
(***************************************************************************)
\* floor(k * num / den), computed without forming k * num
FloorMulDiv(k, num, den) == k * (num \div den) + (k * (num % den)) \div den

C7_TickerDriftFree ==
    /\ tk.on =>
         /\ tk.given = (tk.t.num * tk.asked) \div tk.t.den
         /\ tk.t.den * tk.given <= tk.t.num * tk.asked
         /\ tk.t.num * tk.asked < tk.t.den * (tk.given + 1)
    /\ \A i \in 1..ctx.nb_streams :
         LET stream == ctx.streams[i].priv_data
         IN  /\ stream.pts_ticker.err
                  = (calls.writes[i] * (stream.pts_ticker.num % stream.pts_ticker.den))
                        % stream.pts_ticker.den
             /\ ~calls.forced[i] =>
                  stream.pts = FloorMulDiv(calls.writes[i], stream.pts_ticker.num,
                                           stream.pts_ticker.den)

C7_Witness ==
    /\ tk.on
    /\ tk.n >= 2
    /\ tk.t.err # 0
    /\ tk.given >= 1
    /\ calls.writes[1] >= 2
    /\ ~calls.forced[1]
    /\ ctx.streams[1].priv_data.pts_ticker.err # 0

(***************************************************************************)
(* C8: mpegps_probe returns AVPROBE_SCORE_MAX - 1 exactly when the first   *)
(* occurrence of 00 00 01 xx in the buffer has xx in 0xBA..0xBB,           *)
(* 0xBC..0xBF, 0xC0..0xDF or 0xE0..0xEF, and 0 when that first occurrence  *)
(* is another code or there is none, whatever follows.                     *)
(***************************************************************************)
Occurrences(buf) ==
    {k \in 1..(Len(buf) - 3) : buf[k] = 0 /\ buf[k + 1] = 0 /\ buf[k + 2] = 1}

FirstOccurrence(buf) == CHOOSE k \in Occurrences(buf) : \A j \in Occurrences(buf) : k <= j

KnownPSCode(xx) ==
    xx \in ({\hBA, \hBB} \cup (\hBC..\hBF) \cup (\hC0..\hDF) \cup (\hE0..\hEF))

C8_Probe ==
    (pr.on /\ pr.done) =>
        pr.score = (IF Occurrences(pr.buf) # {}
                       /\ KnownPSCode(pr.buf[FirstOccurrence(pr.buf) + 3])
                    THEN AVPROBE_SCORE_MAX - 1
                    ELSE 0)

C8_Witness ==
    /\ pr.on
    /\ pr.done
    /\ pr.buf = <<\hAA, \hBB, 0, 0, 1, \hBA>>
    /\ pr.score = AVPROBE_SCORE_MAX - 1

\* a first code that is not a PS code hides a PS code behind it
C8_WitnessHidden ==
    /\ pr.on
    /\ pr.done
    /\ pr.buf = <<0, 0, 1, \hAA, 0, 0, 1, \hBA>>
    /\ pr.score = 0

(***************************************************************************)
(* C9 as claimed: the MPEG-2 packet with start code 0x1E0, length 14, one  *)
(* stuffing byte, 0x80 0xC0 0x0A, ten timestamp bytes and one payload byte *)
(* comes back as a packet of size 1.                                       *)
(***************************************************************************)
C9_SizeOne ==
    (rd.open /\ rd.pb = Mpeg2PtsDts(14, 1) /\ Len(rd.pkts) >= 1) =>
        rd.pkts[1].size = 1

(***************************************************************************)
(* C9 as amended: the length field counts every byte after itself, the     *)
(* fourteen header bytes included, so the packet returned for such an      *)
(* input has size length - 14 (0 for length 14, 1 for length 15) and holds *)
(* that many of the payload bytes; its pts is the first timestamp, and it  *)
(* is the only packet returned.                                            *)
(***************************************************************************)
Mpeg2Cases == { <<14, 1>>, <<15, 1>>, <<15, 2>>, <<16, 2>> }

C9_SizeFromLength ==
    \A c \in Mpeg2Cases :
        (rd.open /\ rd.pb = Mpeg2PtsDts(c[1], c[2])) =>
            /\ Len(rd.pkts) <= 1
            /\ Len(rd.pkts) = 1 =>
                 /\ rd.pkts[1].size = c[1] - 14
                 /\ rd.pkts[1].data = [j \in 1..(c[1] - 14) |-> \h4A + j]
                 /\ rd.pkts[1].pts = <<0, 65539>>
                 /\ rd.pkts[1].id = \h1E0
                 /\ rd.pkts[1].stream_index = 0

C9_Witness ==
    /\ rd.open
    /\ rd.pb = Mpeg2PtsDts(14, 1)
    /\ Len(rd.pkts) = 1
    /\ rd.pkts[1].size = 0
    /\ rd.ret = -EIO

\* with length 15 the payload byte is returned
C9_WitnessFifteen ==
    /\ rd.open
    /\ rd.pb = Mpeg2PtsDts(15, 1)
    /\ Len(rd.pkts) = 1
    /\ rd.pkts[1].size = 1
    /\ rd.pkts[1].data = <<\h4B>>

(***************************************************************************)
(* C10: the demuxer's stream table.  No two streams share an id; every id  *)
(* in the table is in a recognised range and was entered when the first    *)
(* packet with that id was returned; every returned packet's stream_index  *)
(* names the stream with the packet's id, so a packet with any other id is *)
(* never returned; and a call leaves the entries there are as they are,    *)
(* adding at most one.                                                     *)
(***************************************************************************)
\* the ids of the returned packets, each at its first sighting, in order
RECURSIVE FirstSightings(_, _)
FirstSightings(pkts, k) ==
    IF k = 0 THEN <<>>
    ELSE LET before == FirstSightings(pkts, k - 1)
         IN  IF \E j \in 1..(k - 1) : pkts[j].id = pkts[k].id
             THEN before
             ELSE Append(before, pkts[k].id)

RecognisedId(id) ==
    \/ (id >= \h1E0 /\ id <= \h1EF)
    \/ (id >= \h1C0 /\ id <= \h1DF)
    \/ (id >= \h80 /\ id <= \h9F)

StreamTableSound ==
    rd.open =>
        /\ \A i, j \in 1..Len(rd.streams) : rd.streams[i].id = rd.streams[j].id => i = j
        /\ \A i \in 1..Len(rd.streams) :
             /\ rd.streams[i].index = i - 1
             /\ RecognisedId(rd.streams[i].id)
             /\ rd.streams[i].codec_type
                  = (IF rd.streams[i].id >= \h1E0 THEN "video" ELSE "audio")
        /\ [i \in 1..Len(rd.streams) |-> rd.streams[i].id]
             = FirstSightings(rd.pkts, Len(rd.pkts))
        /\ \A k \in 1..Len(rd.pkts) :
             /\ rd.pkts[k].stream_index \in 0..(Len(rd.streams) - 1)
             /\ rd.streams[rd.pkts[k].stream_index + 1].id = rd.pkts[k].id

StreamTableGrows ==
    (rd.open /\ rd'.open) =>
        /\ Len(rd'.streams) \in {Len(rd.streams), Len(rd.streams) + 1}
        /\ SubSeq(rd'.streams, 1, Len(rd.streams)) = rd.streams
        /\ Len(rd'.streams) > Len(rd.streams) => Len(rd'.pkts) = Len(rd.pkts) + 1

C10_StreamTable == [](StreamTableSound) /\ [][StreamTableGrows]_vars

C10_Witness ==
    /\ rd.open
    /\ rd.pb = Ac3Chunk \o UnknownSubChunk \o Ac3Chunk
    /\ Len(rd.pkts) = 2
    /\ Len(rd.streams) = 1
    /\ rd.streams[1].id = \h80
    /\ rd.ret = 0

\* two ids seen, the first of them twice
C10_WitnessTwoStreams ==
    /\ rd.open
    /\ rd.pb = Mpeg1AudioChunk \o Mpeg1VideoChunk \o Mpeg1AudioChunk
    /\ Len(rd.pkts) = 3
    /\ Len(rd.streams) = 2
    /\ rd.pkts[3].stream_index = 0

(***************************************************************************)
(* The pack header and the timestamp field on their own, for timestamps    *)
(* and mux rates beyond those a short session reaches                      *)
(***************************************************************************)
\* timestamps as the model holds them: 32-bit two's complement, so that bits
\* 31 and above all equal the sign
PtsSamples ==
    { -2147483647, -1073741824, -32769, -2, -1, 0, 1, 2351, 32767, 32768, 65535,
      1073741823, 1073741824, 1073774592, 2147483647 }

MuxRateSamples == {0, 1, 25, 45, 4194303}

InitCodec ==
    /\ pc = "codec"
    /\ ctx = IdleCtx
    /\ calls = NoHistory(0)
    /\ rd = IdleRd
    /\ tk = IdleTk
    /\ \E timestamp \in PtsSamples, mux_rate \in MuxRateSamples :
         pr = [on |-> FALSE, codec |-> TRUE, timestamp |-> timestamp, mux_rate |-> mux_rate,
               packed |-> FALSE, header |-> <<>>,
               stamped |-> FALSE, field |-> <<>>, mpeg1 |-> NoPts, mpeg2 |-> NoPts]

\* put_pack_header on the sample
PackHeader ==
    /\ pc = "codec"
    /\ ~pr.packed
    /\ pr' = [pr EXCEPT !.packed = TRUE,
                        !.header = put_pack_header([mux_rate |-> pr.mux_rate], pr.timestamp)]
    /\ UNCHANGED <<pc, ctx, calls, rd, tk>>

\* lines 320-325 on the sample, and the field read back as the demuxer reads it:
\* lines 555-556 (first byte already read) and line 575 (first byte not read)
StampField ==
    /\ pc = "codec"
    /\ ~pr.stamped
    /\ \E field \in {put_pts(pr.timestamp)} :
         pr' = [pr EXCEPT !.stamped = TRUE,
                          !.field = field,
                          !.mpeg1 = get_pts(field, 1, field[1]).pts,
                          !.mpeg2 = get_pts(field, 0, -1).pts]
    /\ UNCHANGED <<pc, ctx, calls, rd, tk>>

NextCodec == PackHeader \/ StampField

SpecCodec == InitCodec /\ [][NextCodec]_vars

Coded == pc = "codec" /\ pr.codec

(***************************************************************************)
(* C11 as claimed: the pack header written by put_pack_header is 14 bytes  *)
(* long, for every timestamp and mux_rate.                                 *)
(***************************************************************************)
C11_PackHeader14 == (Coded /\ pr.packed) => Len(pr.header) = 14

(***************************************************************************)
(* C11 as amended: the pack header is 12 bytes long (96 bits): the start   *)
(* code, then five bytes laid out like the PES timestamp field (0010, the  *)
(* timestamp in 3+15+15 bits, each followed by a marker), then three bytes *)
(* holding a marker, the 22-bit mux_rate and a marker.                     *)
(***************************************************************************)
C11_PackHeader12 ==
    (Coded /\ pr.packed) =>
        /\ Len(pr.header) = 12
        /\ SubSeq(pr.header, 1, 4) = <<0, 0, 1, \hBA>>
        /\ pr.header[5] \div 16 = 2
        /\ get_pts(pr.header, 5, pr.header[5]).pts
             = << (pr.timestamp \div 1073741824) % 8, pr.timestamp % 1073741824 >>
        /\ pr.header[7] % 2 = 1
        /\ pr.header[9] % 2 = 1
        /\ pr.header[10] * 65536 + pr.header[11] * 256 + pr.header[12]
             = 8388608 + 2 * pr.mux_rate + 1

C11_Witness ==
    /\ Coded
    /\ pr.packed
    /\ pr.timestamp = -1
    /\ pr.mux_rate = 25
    /\ pr.header = <<0, 0, 1, \hBA, \h2F, \hFF, \hFF, \hFF, \hFF, \h80, \h00, \h33>>

(***************************************************************************)
(* C14: the five timestamp bytes flush_packet writes start with a byte     *)
(* whose high nibble is 2 (never the stuffing byte 0xFF), and get_pts      *)
(* reads from them start_pts modulo 2^33, the sentinel -1 included.        *)
(***************************************************************************)
C14_PtsCodec ==
    (Coded /\ pr.stamped) =>
        /\ Len(pr.field) = 5
        /\ \A k \in 1..5 : pr.field[k] \in 0..255
        /\ pr.field[1] \div 16 = 2
        /\ pr.field[1] # \hFF
        /\ pr.mpeg1 = << (pr.timestamp \div 1073741824) % 8, pr.timestamp % 1073741824 >>
        /\ pr.mpeg2 = pr.mpeg1

C14_Witness ==
    /\ Coded
    /\ pr.stamped
    /\ pr.timestamp = -1
    /\ pr.field = <<\h2F, \hFF, \hFF, \hFF, \hFF>>
    /\ pr.mpeg1 = <<7, 1073741823>>

\* a timestamp with bit 30 set and a carry into the middle field
C14_WitnessHigh ==
    /\ Coded
    /\ pr.stamped
    /\ pr.timestamp = 1073774592
    /\ pr.mpeg1 = <<1, 32768>>

(***************************************************************************)
(* C12: no PES packet is emitted with the sentinel -1 as its timestamp:    *)
(* every flush_packet call, from mpeg_mux_write_packet or from             *)
(* mpeg_mux_end, on fresh or on leftover bytes, runs with start_pts >= 0.  *)
(***************************************************************************)
C12_StartPtsStamped ==
    \A k \in 1..Len(ctx.packets) :
        /\ ctx.packets[k].timestamp # PTS_UNSET
        /\ ctx.packets[k].timestamp >= 0

LengthField(e) == ctx.pb[PesStart(e) + 5] * 256 + ctx.pb[PesStart(e) + 6]

C18_PesLength ==
    \A k \in 1..Len(ctx.packets) :
        LET e == ctx.packets[k]
        IN  /\ LengthField(e) = NextStart(k) - (PesStart(e) + 6)
            /\ url_fskip(ctx.pb, PesStart(e) + 6, LengthField(e)) = NextStart(k)

(***************************************************************************)
(* C13: buffer bounds.  Between calls every stream has                     *)
(* 0 <= buffer_ptr <= packet_data_max_size <= MAX_PAYLOAD_SIZE, the buffer *)
(* never holds more than packet_data_max_size bytes inside a call (a flush *)
(* issued while writing finds exactly that many), and one flush brings     *)
(* buffer_ptr back below packet_data_max_size.                             *)
(***************************************************************************)
C13_BufferBounds ==
    /\ S.packet_data_max_size <= MAX_PAYLOAD_SIZE
    /\ \A i \in 1..ctx.nb_streams :
         /\ ctx.streams[i].priv_data.buffer_ptr >= 0
         /\ ctx.streams[i].priv_data.buffer_ptr < S.packet_data_max_size
         /\ Len(ctx.streams[i].priv_data.buffer) = ctx.streams[i].priv_data.buffer_ptr
    /\ \A k \in 1..Len(ctx.packets) :
         /\ ctx.packets[k].buffer_ptr <= S.packet_data_max_size
         /\ ctx.packets[k].left >= 0
         /\ ctx.packets[k].left < S.packet_data_max_size
         /\ pc = "mux" => ctx.packets[k].buffer_ptr = S.packet_data_max_size

\* a write larger than the buffer went through several fills and flushes
C13_Witness ==
    /\ pc = "mux"
    /\ \E i \in 1..ctx.nb_streams :
         /\ calls.writes[i] = 1
         /\ calls.fed[i] > 2 * S.packet_data_max_size
         /\ Len(PacketsOfStream(i)) = 2
         /\ ctx.streams[i].priv_data.buffer_ptr > 0

(***************************************************************************)
(* C15: byte conservation.  For each stream the payload bytes emitted so   *)
(* far, followed by the bytes pending in its buffer, are the bytes written *)
(* to it, in order; each flush emits min(buffer_ptr, payload_size) bytes   *)
(* from the front of the buffer and keeps the rest.                        *)
(***************************************************************************)
C15_ByteConservation ==
    /\ \A i \in 1..ctx.nb_streams :
         EmittedData(i) \o ctx.streams[i].priv_data.buffer = Payload(i, 0, calls.fed[i])
    /\ \A k \in 1..Len(ctx.packets) :
         LET e == ctx.packets[k]
         IN  /\ e.data_len = Min(e.buffer_ptr, e.payload_size)
             /\ e.left = e.buffer_ptr - e.data_len

\* a flush has kept a tail, and more bytes were written behind it
C15_Witness ==
    /\ pc = "mux"
    /\ \E k \in 1..Len(ctx.packets) : ctx.packets[k].left > 0
    /\ \E i \in 1..ctx.nb_streams :
         /\ calls.writes[i] = 2
         /\ Len(PacketsOfStream(i)) >= 1
         /\ ctx.streams[i].priv_data.buffer_ptr > SmallWrite

(***************************************************************************)
(* C17: every flush_packet call writes exactly packet_size bytes: pack and *)
(* system header, start code, length, stuffing, PES header, AC-3           *)
(* sub-header, end code and data together; payload_size and                *)
(* payload_size - stuffing_size are never negative, and the output is      *)
(* packet_number * packet_size bytes long.                                 *)
(***************************************************************************)
C17_FixedUnit ==
    /\ Len(ctx.pb) = S.packet_number * S.packet_size
    /\ \A k \in 1..Len(ctx.packets) :
         LET e == ctx.packets[k]
         IN  /\ e.offset = (k - 1) * S.packet_size
             /\ e.end = k * S.packet_size
             /\ e.payload_size >= 0
             /\ e.payload_size - e.stuffing_size >= 0
             /\ e.size + 4 + 2 + e.stuffing_size + e.header_len
                  + (IF e.id < \hC0 THEN 4 ELSE 0)
                  + (IF e.last_pkt THEN 4 ELSE 0)
                  + e.data_len = S.packet_size
             /\ BytesAt(ctx.pb, PesStart(e) + 6, e.stuffing_size)
                  = [j \in 1..e.stuffing_size |-> \hFF]

\* a final AC-3 packet with stuffing, and a packet with no header in front
C17_Witness ==
    /\ pc = "muxed"
    /\ \E k \in 1..Len(ctx.packets) :
         /\ ctx.packets[k].last_pkt
         /\ ctx.packets[k].id < \hC0
         /\ ctx.packets[k].stuffing_size > 0
    /\ \E k \in 1..Len(ctx.packets) : ~ctx.packets[k].pack

(***************************************************************************)
(* mpeg_mux_init for bit rates down to 0 (a codec whose bit_rate is unset) *)
(***************************************************************************)
LowBitRates == {0, 1000, 3000, 3096, 4000, 6191, 6192, 8000}

\* the format context as the caller hands it over: the output format and the
\* codec parameters of the streams
InitSetup ==
    /\ pc = "setup"
    /\ \E oformat \in Profiles, kinds \in StreamConfigs, bit_rate \in LowBitRates :
         ctx = [nb_streams |-> 0, oformat |-> oformat,
                codecs |-> [i \in 1..Len(kinds) |-> Codec(kinds[i], bit_rate)]]
    /\ calls = NoHistory(0)
    /\ rd = IdleRd
    /\ tk = IdleTk
    /\ pr = IdlePr

MuxInit ==
    /\ pc = "setup"
    /\ ctx' = mpeg_mux_init(ctx.oformat, ctx.codecs)
    /\ calls' = NoHistory(Len(ctx.codecs))
    /\ pc' = "ready"
    /\ UNCHANGED <<rd, tk, pr>>

SpecSetup == InitSetup /\ [][MuxInit]_vars

(***************************************************************************)
(* C19: after mpeg_mux_init, pack_header_freq >= 1 and                     *)
(* system_header_freq >= 1 for every profile and every combination of bit  *)
(* rates, so that the modulo tests of flush_packet are defined.            *)
(***************************************************************************)
C19_CadencePositive ==
    pc = "ready" =>
        /\ ctx.priv_data.pack_header_freq >= 1
        /\ ctx.priv_data.system_header_freq >= 1

(***************************************************************************)
(* C20: whenever mpegps_read_packet returns a packet, its length is not    *)
(* negative and equals the declared PES length minus the bytes consumed    *)
(* after the length field, also for small declared lengths and for an      *)
(* MPEG-2 header_len smaller than the timestamps the flags announce.       *)
(* Stated for the packets whose header was read before the end of the      *)
(* input.                                                                  *)
(***************************************************************************)
C20_LengthSane ==
    rd.open =>
        \A k \in 1..Len(rd.pkts) :
            rd.hdrs[k].data < Len(rd.pb) =>
                /\ rd.pkts[k].size >= 0
                /\ rd.pkts[k].size
                     = rd.hdrs[k].declared - (rd.hdrs[k].data - rd.hdrs[k].body)

\* the two cases apart: a length below zero, and a length that is not the
\* declared one less the bytes consumed
C20_NonNegative ==
    rd.open =>
        \A k \in 1..Len(rd.pkts) :
            rd.hdrs[k].data < Len(rd.pb) => rd.pkts[k].size >= 0

C20_DeclaredLessConsumed ==
    rd.open =>
        \A k \in 1..Len(rd.pkts) :
            rd.hdrs[k].data < Len(rd.pb) =>
                rd.pkts[k].size = rd.hdrs[k].declared - (rd.hdrs[k].data - rd.hdrs[k].body)

(***************************************************************************)
(* mpegps_read_packet pass by pass: a call enters at the label redo, and   *)
(* each step runs from redo to a return or to the next goto redo           *)
(***************************************************************************)
\* a packet cut short by the end of the input: start code 0x1BD, a length
\* of 4, and the first byte of a PTS and DTS pair
TruncatedChunk == Pes(\hBD, 4, <<\h31>>)

RedoChunks ==
    { PackChunk, PaddingChunk, EndCodeChunk, Mpeg1AudioChunk, Ac3Chunk, UnknownSubChunk,
      EncryptedChunk, LongHeaderChunk, BareCodeChunk, TruncatedChunk }

\* busy: a call is between its entry and its return; lap: the parity of the
\* number of times the call in progress went back to redo
InitRedo ==
    /\ pc = "demux"
    /\ ctx = IdleCtx
    /\ calls = NoHistory(0)
    /\ \E n \in 0..MaxChunks :
         \E chunks \in [1..n -> RedoChunks] :
             rd = [open |-> TRUE, pb |-> Concat(chunks), pos |-> 0, header_state |-> \hFF,
                   streams |-> <<>>, pkts |-> <<>>, hdrs |-> <<>>, ret |-> 0,
                   busy |-> FALSE, lap |-> 0]
    /\ tk = IdleTk
    /\ pr = IdlePr

\* the caller reads packet after packet until a call fails
EnterReadPacket ==
    /\ pc = "demux"
    /\ ~rd.busy
    /\ rd.ret = 0
    /\ rd' = [rd EXCEPT !.busy = TRUE, !.lap = 0]
    /\ UNCHANGED <<pc, ctx, calls, tk, pr>>

RedoPass ==
    /\ pc = "demux"
    /\ rd.busy
    /\ \E r \in {ReadPass(rd.pb, rd.pos, rd.streams)} :
           rd' = IF r.redo
                 THEN [rd EXCEPT !.pos = r.pos, !.lap = 1 - @]
                 ELSE [rd EXCEPT !.busy = FALSE,
                                 !.pos = r.pos,
                                 !.header_state = r.header_state,
                                 !.streams = r.streams,
                                 !.ret = r.ret,
                                 !.pkts = IF r.ret = 0 THEN Append(@, r.pkt) ELSE @,
                                 !.hdrs = IF r.ret = 0 THEN Append(@, r.hdr) ELSE @]
    /\ UNCHANGED <<pc, ctx, calls, tk, pr>>

NextRedo == EnterReadPacket \/ RedoPass

\* a call that has been entered keeps running: nothing suspends it
SpecRedo == InitRedo /\ [][NextRedo]_vars /\ WF_vars(RedoPass)

(***************************************************************************)
(* C21: on any finite input, each call of mpegps_read_packet eventually    *)
(* returns, with a packet or with -EIO: the redo loop cannot repeat        *)
(* forever.                                                                *)
(***************************************************************************)
C21_Terminates == rd.busy ~> ~rd.busy

====
